---- MODULE Spec2Model ----
(***************************************************************************)
(* fsma::array_3d<T, D1, D2, D3> (array_3d.hpp): an STL-like wrapper for a *)
(* built-in three dimensional array T elems[D1][D2][D3].                   *)
(*                                                                         *)
(* A container is the value of its only data member, elems: a function     *)
(* from the first subscript to a function from the second subscript to a   *)
(* function from the third subscript to a T.  An iterator is a T*, which   *)
(* is modelled as its distance from **elems; dereferencing it goes through *)
(* the object layout of the built-in array.  A reference returned by       *)
(* operator() or at() is the subscript triple of the lvalue it names.      *)
(*                                                                         *)
(* T is int here (values 0 .. MaxVal) and T2, the element type of the      *)
(* right-hand side of the converting assignment, is double, kept in units  *)
(* of one half (0, 0.5, 1, ...).                                            *)
(***************************************************************************)
EXTENDS Integers, Sequences, FiniteSets

\* Largest int stored in an element.
MaxVal == 1

\* Template instantiations <D1, D2, D3> that are model-checked.
Shapes == { <<1, 1, 1>>, <<2, 2, 2>>, <<1, 2, 3>>, <<3, 1, 2>>, <<2, 3, 1>> }

\* Instantiations for the specification that runs every operation on two
\* containers without restriction.
SmallShapes == { <<1, 1, 1>>, <<2, 1, 1>>, <<1, 2, 1>>, <<1, 1, 2>> }

\* The objects of type array_3d<T,D1,D2,D3> of the program.
Cont == { "a", "b" }

VARIABLES
    dims,   \* the template arguments <<D1, D2, D3>> of the instantiation
    elems,  \* elems[c]: the member elems of container c (element type T)
    rhs,    \* the member elems of an array_3d<T2,D1,D2,D3>
    last    \* the operation executed last and what it returned or threw

vars == <<dims, elems, rhs, last>>

D1 == dims[1]
D2 == dims[2]
D3 == dims[3]

\* The values of T, and the number of values of T2: the halves from 0 to
\* MaxVal + 1/2, numbered 0 .. 2 * MaxVal + 1.
Val == 0 .. MaxVal
NumVal2 == 2 * MaxVal + 2

\* The implicit conversion from T2 to T done by  *d_first = *first  in
\* std::copy: a double converted to int is truncated.
Convert(x) == x \div 2

\* T elems[D1][D2][D3] holding the same value everywhere.
Uniform(v) == [i \in 0 .. D1 - 1 |-> [j \in 0 .. D2 - 1 |-> [k \in 0 .. D3 - 1 |-> v]]]

---------------------------------------------------------------------------
\* Capacity.

size_1d == D1

size_2d == D2

size_3d == D3

\* D3 left out of the product.
sizeBad == D1 * D2

size == D1 * D2 * D3

max_size == D1 * D2 * D3

empty == FALSE

---------------------------------------------------------------------------
\* Pointers into elems.  The built-in array T[D1][D2][D3] is D1 consecutive
\* T[D2][D3], each D2 consecutive T[D3], each D3 consecutive T: the object
\* at distance p from **elems is elems[p / (D2*D3)][(p / D3) % D2][p % D3].

\* (SubscriptsBad: the layout with the first subscript varying fastest.)
SubscriptsBad(p) == << p % D1, (p \div D1) % D2, p \div (D1 * D2) >>

Subscripts(p) == << p \div (D2 * D3), (p \div D3) % D2, p % D3 >>

\* The lvalue a reference (a subscript triple) names.
Load(e, r) == e[r[1]][r[2]][r[3]]

Put(e, r, v) == [e EXCEPT ![r[1]][r[2]][r[3]] = v]

\* *p  and  *p = v  for a pointer p into the elements of e.
Deref(e, p) == Load(e, Subscripts(p))

Store(e, p, v) == Put(e, Subscripts(p), v)

begin == 0

end == begin + size

\* T * data()
data == 0

---------------------------------------------------------------------------
\* Element access.

\* reference operator()(dim1, dim2, dim3): no range check.  It is called
\* with valid subscripts only; anything else is undefined behaviour.
op_call(dim1, dim2, dim3) == << dim1, dim2, dim3 >>

\* reference at(dim1, dim2, dim3): err stands for throwing std::out_of_range.
\* (the first test off by one: the last valid first subscript is refused)
atBad(dim1, dim2, dim3) ==
    IF D1 - 1 <= dim1 \/ D2 <= dim2 \/ D3 <= dim3
    THEN [err |-> TRUE, ref |-> << >>]
    ELSE [err |-> FALSE, ref |-> << dim1, dim2, dim3 >>]

at(dim1, dim2, dim3) ==
    IF D1 <= dim1 \/ D2 <= dim2 \/ D3 <= dim3
    THEN [err |-> TRUE, ref |-> << >>]
    ELSE [err |-> FALSE, ref |-> << dim1, dim2, dim3 >>]

front(e) == e[0][0][0]

\* (backBad: the third subscript is not the last one.)
backBad(e) == e[D1 - 1][D2 - 1][0]

back(e) == e[D1 - 1][D2 - 1][D3 - 1]

---------------------------------------------------------------------------
\* Iteration:  for (it = first; it != lst; ++it) yield *it.

RECURSIVE Walk(_, _, _)
Walk(e, first, lst) ==
    IF first = lst THEN << >>
    ELSE << Deref(e, first) >> \o Walk(e, first + 1, lst)

\* A std::reverse_iterator holds a T* current; *rit is *(current - 1) and
\* ++rit is --current.  rbegin() holds end(), rend() holds begin().
rbegin == end

rend == begin

RECURSIVE RWalk(_, _, _)
RWalk(e, current, stop) ==
    IF current = stop THEN << >>
    ELSE << Deref(e, current - 1) >> \o RWalk(e, current - 1, stop)

---------------------------------------------------------------------------
\* The standard algorithms the member functions call.

\* std::fill_n(first, n, value)
\* (fill_nBad stops one element early.)
RECURSIVE fill_nBad(_, _, _, _)
fill_nBad(e, first, n, value) ==
    IF n <= 1 THEN e
    ELSE fill_nBad(Store(e, first, value), first + 1, n - 1, value)

RECURSIVE fill_n(_, _, _, _)
fill_n(e, first, n, value) ==
    IF n = 0 THEN e
    ELSE fill_n(Store(e, first, value), first + 1, n - 1, value)

\* std::swap_ranges(first1, last1, first2) over the elements of x and y;
\* yields the two containers afterwards.
\* (swap_rangesBad assigns the elements of y to x and leaves y alone.)
RECURSIVE swap_rangesBad(_, _, _, _, _)
swap_rangesBad(x, y, first1, last1, first2) ==
    IF first1 = last1 THEN << x, y >>
    ELSE swap_rangesBad(Store(x, first1, Deref(y, first2)), y,
                        first1 + 1, last1, first2 + 1)

RECURSIVE swap_ranges(_, _, _, _, _)
swap_ranges(x, y, first1, last1, first2) ==
    IF first1 = last1 THEN << x, y >>
    ELSE swap_ranges(Store(x, first1, Deref(y, first2)),
                     Store(y, first2, Deref(x, first1)),
                     first1 + 1, last1, first2 + 1)

\* std::copy(first, lst, d_first) from the T2 elements of s to the T
\* elements of d; yields d afterwards.
\* (copyBad never advances d_first.)
RECURSIVE copyBad(_, _, _, _, _)
copyBad(s, d, first, lst, d_first) ==
    IF first = lst THEN d
    ELSE copyBad(s, Store(d, d_first, Convert(Deref(s, first))),
                 first + 1, lst, d_first)

RECURSIVE copy(_, _, _, _, _)
copy(s, d, first, lst, d_first) ==
    IF first = lst THEN d
    ELSE copy(s, Store(d, d_first, Convert(Deref(s, first))),
              first + 1, lst, d_first + 1)

\* std::equal(first1, last1, first2)
\* (equalBad leaves the last element out.)
RECURSIVE equalBad(_, _, _, _, _)
equalBad(x, y, first1, last1, first2) ==
    IF first1 + 1 >= last1 THEN TRUE
    ELSE IF Deref(x, first1) # Deref(y, first2) THEN FALSE
    ELSE equalBad(x, y, first1 + 1, last1, first2 + 1)

RECURSIVE equal(_, _, _, _, _)
equal(x, y, first1, last1, first2) ==
    IF first1 = last1 THEN TRUE
    ELSE IF Deref(x, first1) # Deref(y, first2) THEN FALSE
    ELSE equal(x, y, first1 + 1, last1, first2 + 1)

\* std::lexicographical_compare(first1, last1, first2, last2)
\* (lexicographical_compareBad goes on after a greater element of x.)
RECURSIVE lexicographical_compareBad(_, _, _, _, _, _)
lexicographical_compareBad(x, y, first1, last1, first2, last2) ==
    IF first1 = last1 \/ first2 = last2 THEN first1 = last1 /\ first2 # last2
    ELSE IF Deref(x, first1) < Deref(y, first2) THEN TRUE
    ELSE lexicographical_compareBad(x, y, first1 + 1, last1, first2 + 1, last2)

RECURSIVE lexicographical_compare(_, _, _, _, _, _)
lexicographical_compare(x, y, first1, last1, first2, last2) ==
    IF first1 = last1 \/ first2 = last2 THEN first1 = last1 /\ first2 # last2
    ELSE IF Deref(x, first1) < Deref(y, first2) THEN TRUE
    ELSE IF Deref(y, first2) < Deref(x, first1) THEN FALSE
    ELSE lexicographical_compare(x, y, first1 + 1, last1, first2 + 1, last2)

---------------------------------------------------------------------------
\* Member functions that change whole containers, and the comparisons.

\* void fill(const T& value)
fill(e, value) == fill_n(e, 0, size, value)

\* void assign(const T& value)
assign(e, value) == fill(e, value)

\* void swap(array_3d& y), called on x; yields << x, y >> afterwards.
swap(x, y) == swap_ranges(x, y, begin, end, begin)

\* array_3d& operator=(const array_3d<T2,D1,D2,D3>& rhs), called on d;
\* yields d afterwards.
op_assign(d, s) == copy(s, d, begin, end, begin)

op_eq(x, y) == equal(x, y, begin, end, begin)

op_lt(x, y) == lexicographical_compare(x, y, begin, end, begin, end)

op_ne(x, y) == ~ op_eq(x, y)

op_gt(x, y) == op_lt(y, x)

op_le(x, y) == ~ op_lt(y, x)

op_ge(x, y) == ~ op_lt(x, y)

---------------------------------------------------------------------------
\* What the last operation was: the object it was called on, the
\* subscripts passed (<< >>: none), whether it threw, the T it read or
\* wrote (NoVal: none) and what else it returned.
Outcome(op, obj, arg, err, val, res) ==
    [op |-> op, obj |-> obj, arg |-> arg, err |-> err, val |-> val, res |-> res]

NoVal == 0 - 1

Constructed == Outcome("init", "a", << >>, FALSE, NoVal, << >>)

\* Every value of T elems[D1][D2][D3].
Contents == [0 .. D1 - 1 -> [0 .. D2 - 1 -> [0 .. D3 - 1 -> Val]]]

\* Aggregate initialisation  array_3d<T,D1,D2,D3> x = { s, s+1, ... }  with
\* the values reduced modulo n: the initialisers go to the elements in
\* the order of the built-in array.
Ramp(s, n) ==
    [i \in 0 .. D1 - 1 |-> [j \in 0 .. D2 - 1 |-> [k \in 0 .. D3 - 1 |->
        (s + (i * D2 + j) * D3 + k) % n]]]

\* Contents a container of T is constructed with in the specification of
\* the two-container operations: one value everywhere, or one value
\* everywhere but for one element.
Seeds ==
    { Uniform(v) : v \in Val } \cup
    { Put(Uniform(v), << i, j, k >>, (v + 1) % (MaxVal + 1)) :
        v \in Val, i \in 0 .. D1 - 1, j \in 0 .. D2 - 1, k \in 0 .. D3 - 1 }

\* Contents the container of T2 is constructed with.
Seeds2 == { Ramp(s, NumVal2) : s \in 0 .. 1 }

---------------------------------------------------------------------------
\* Operations.

\* c(i, j, k) = v
\* (WriteBad: the containers share one block of elements.)
WriteBad(c, i, j, k, v) ==
    /\ elems' = [d \in Cont |-> Put(elems[d], op_call(i, j, k), v)]
    /\ last' = Outcome("write", c, << i, j, k >>, FALSE, v, << >>)
    /\ UNCHANGED << dims, rhs >>

Write(c, i, j, k, v) ==
    /\ elems' = [elems EXCEPT ![c] = Put(@, op_call(i, j, k), v)]
    /\ last' = Outcome("write", c, << i, j, k >>, FALSE, v, << >>)
    /\ UNCHANGED << dims, rhs >>

\* ... = c(i, j, k)
Read(c, i, j, k) ==
    /\ last' = Outcome("read", c, << i, j, k >>, FALSE,
                       Load(elems[c], op_call(i, j, k)), << >>)
    /\ UNCHANGED << dims, elems, rhs >>

\* c.at(i, j, k) = v
AtWrite(c, i, j, k, v) ==
    LET r == at(i, j, k) IN
    /\ IF r.err
       THEN /\ elems' = elems
            /\ last' = Outcome("at_write", c, << i, j, k >>, TRUE, NoVal, << >>)
       ELSE /\ elems' = [elems EXCEPT ![c] = Put(@, r.ref, v)]
            /\ last' = Outcome("at_write", c, << i, j, k >>, FALSE, v, << >>)
    /\ UNCHANGED << dims, rhs >>

\* ... = c.at(i, j, k)
AtRead(c, i, j, k) ==
    LET r == at(i, j, k) IN
    /\ IF r.err
       THEN last' = Outcome("at_read", c, << i, j, k >>, TRUE, NoVal, << >>)
       ELSE last' = Outcome("at_read", c, << i, j, k >>, FALSE,
                            Load(elems[c], r.ref), << >>)
    /\ UNCHANGED << dims, elems, rhs >>

\* c.fill(v)
Fill(c, v) ==
    /\ elems' = [elems EXCEPT ![c] = fill(@, v)]
    /\ last' = Outcome("fill", c, << >>, FALSE, v, << >>)
    /\ UNCHANGED << dims, rhs >>

\* c.assign(v)
Assign(c, v) ==
    /\ elems' = [elems EXCEPT ![c] = assign(@, v)]
    /\ last' = Outcome("assign", c, << >>, FALSE, v, << >>)
    /\ UNCHANGED << dims, rhs >>

\* c.swap(d), c and d different objects
Swap(c, d) ==
    /\ c # d
    /\ LET r == swap(elems[c], elems[d]) IN
       elems' = [elems EXCEPT ![c] = r[1], ![d] = r[2]]
    /\ last' = Outcome("swap", c, << >>, FALSE, NoVal, << d >>)
    /\ UNCHANGED << dims, rhs >>

\* c = d: the implicit copy assignment of the aggregate copies the member.
CopyAssign(c, d) ==
    /\ c # d
    /\ elems' = [elems EXCEPT ![c] = elems[d]]
    /\ last' = Outcome("copy", c, << >>, FALSE, NoVal, << d >>)
    /\ UNCHANGED << dims, rhs >>

\* c = rhs, rhs of element type T2; returns *this.
ConvAssign(c) ==
    /\ elems' = [elems EXCEPT ![c] = op_assign(@, rhs)]
    /\ last' = Outcome("convert", c, << >>, FALSE, NoVal, << c >>)
    /\ UNCHANGED << dims, rhs >>

\* c == d, c != d, c < d, c > d, c <= d, c >= d
Compare(c, d) ==
    /\ last' = Outcome("compare", c, << >>, FALSE, NoVal,
                       << d,
                          op_eq(elems[c], elems[d]), op_ne(elems[c], elems[d]),
                          op_lt(elems[c], elems[d]), op_gt(elems[c], elems[d]),
                          op_le(elems[c], elems[d]), op_ge(elems[c], elems[d]) >>)
    /\ UNCHANGED << dims, elems, rhs >>

\* c.size_1d(), c.size_2d(), c.size_3d(), c.size(), c.max_size(), c.empty()
Capacity(c) ==
    /\ last' = Outcome("capacity", c, << >>, FALSE, NoVal,
                       << size_1d, size_2d, size_3d, size, max_size, empty >>)
    /\ UNCHANGED << dims, elems, rhs >>

---------------------------------------------------------------------------
\* One member function called on a container a that was constructed with
\* any contents; b and rhs are constructed with the initialisers 0, 1, ...

Init ==
    /\ dims \in Shapes
    /\ elems \in { [c \in Cont |-> IF c = "a" THEN e ELSE Ramp(0, MaxVal + 1)] :
                   e \in Contents }
    /\ rhs = Ramp(0, NumVal2)
    /\ last = Constructed

\* Nothing has been called on the containers yet.
Fresh == last = Constructed

Next ==
    \/ \E i \in 0 .. D1 - 1, j \in 0 .. D2 - 1, k \in 0 .. D3 - 1, v \in Val :
         Fresh /\ Write("a", i, j, k, v)
    \/ \E i \in 0 .. D1 - 1, j \in 0 .. D2 - 1, k \in 0 .. D3 - 1 :
         Fresh /\ Read("a", i, j, k)
    \/ \E i \in 0 .. D1, j \in 0 .. D2, k \in 0 .. D3, v \in Val :
         Fresh /\ AtWrite("a", i, j, k, v)
    \/ \E i \in 0 .. D1, j \in 0 .. D2, k \in 0 .. D3 :
         Fresh /\ AtRead("a", i, j, k)
    \/ \E v \in Val : Fresh /\ Fill("a", v)
    \/ \E v \in Val : Fresh /\ Assign("a", v)
    \/ Fresh /\ CopyAssign("a", "b")
    \/ Fresh /\ ConvAssign("a")
    \/ Fresh /\ Capacity("a")

Spec == Init /\ [][Next]_vars

---------------------------------------------------------------------------
\* Two containers of T and one of T2, constructed with different contents,
\* under every sequence of the operations that take two containers.

InitPair ==
    /\ dims \in Shapes
    /\ elems \in [Cont -> Seeds]
    /\ rhs \in Seeds2
    /\ last = Constructed

NextPair ==
    \/ \E c \in Cont, d \in Cont : Swap(c, d)
    \/ \E c \in Cont, d \in Cont : CopyAssign(c, d)
    \/ \E c \in Cont : ConvAssign(c)
    \/ \E c \in Cont : Compare(c, CHOOSE d \in Cont : d # c)

SpecPair == InitPair /\ [][NextPair]_vars

---------------------------------------------------------------------------
\* Every operation on both containers, in any order, for the small
\* instantiations.

InitAll ==
    /\ dims \in SmallShapes
    /\ elems = [c \in Cont |-> Uniform(0)]
    /\ rhs \in Seeds2
    /\ last = Constructed

NextAll ==
    \/ \E c \in Cont, i \in 0 .. D1 - 1, j \in 0 .. D2 - 1, k \in 0 .. D3 - 1, v \in Val :
         Write(c, i, j, k, v)
    \/ \E c \in Cont, i \in 0 .. D1 - 1, j \in 0 .. D2 - 1, k \in 0 .. D3 - 1 :
         Read(c, i, j, k)
    \/ \E c \in Cont, i \in 0 .. D1, j \in 0 .. D2, k \in 0 .. D3, v \in Val :
         AtWrite(c, i, j, k, v)
    \/ \E c \in Cont, i \in 0 .. D1, j \in 0 .. D2, k \in 0 .. D3 :
         AtRead(c, i, j, k)
    \/ \E c \in Cont, v \in Val : Fill(c, v)
    \/ \E c \in Cont, v \in Val : Assign(c, v)
    \/ \E c \in Cont, d \in Cont : Swap(c, d)
    \/ \E c \in Cont, d \in Cont : CopyAssign(c, d)
    \/ \E c \in Cont : ConvAssign(c)
    \/ \E c \in Cont, d \in Cont : Compare(c, d)
    \/ \E c \in Cont : Capacity(c)

SpecAll == InitAll /\ [][NextAll]_vars

-----
\* The writes of the documented scenario: the n-th element in subscript order
\* (third subscript fastest) is written once, with the value n, the writes
\* in any order.  For <2,2,2> these are (0,0,0)=1, (0,0,1)=2, (0,1,0)=3,
\* (0,1,1)=4, (1,0,0)=5, (1,0,1)=6, (1,1,0)=7, (1,1,1)=8.

Coords == (0 .. D1 - 1) \X (0 .. D2 - 1) \X (0 .. D3 - 1)

Before(t, u) ==
    \/ t[1] < u[1]
    \/ t[1] = u[1] /\ t[2] < u[2]
    \/ t[1] = u[1] /\ t[2] = u[2] /\ t[3] < u[3]

Nth(n) == CHOOSE t \in Coords : Cardinality({ u \in Coords : Before(u, t) }) = n - 1

SeqWrite(n) ==
    LET t == Nth(n) IN
    /\ Load(elems["a"], t) = 0
    /\ Write("a", t[1], t[2], t[3], n)

InitSeq ==
    /\ dims \in Shapes
    /\ elems = [c \in Cont |-> Uniform(0)]
    /\ rhs = Uniform(0)
    /\ last = Constructed

NextSeq == \E n \in 1 .. size : SeqWrite(n)

SpecSeq == InitSeq /\ [][NextSeq]_vars

---------------------------------------------------------------------------
\* Properties.

\* The flattened position the documentation gives to (i, j, k).
FlatPos(i, j, k) == i * D2 * D3 + j * D3 + k

Positions == 0 .. D1 * D2 * D3 - 1

\* The sequence an iteration from begin() to end() yields.
Flat(e) == Walk(e, begin, end)

\* C1: at(i,j,k) throws out_of_range exactly when i >= D1 or j >= D2 or
\* k >= D3 (so at (D1,0,0), (0,D2,0) and (0,0,D3)) and then leaves every
\* container as it was; otherwise it does not throw and names the element
\* operator()(i,j,k) names, for reading and for writing.
C1_AtChecksRange ==
    [][ last'.op \in { "at_read", "at_write" } =>
        LET c == last'.obj
            i == last'.arg[1]
            j == last'.arg[2]
            k == last'.arg[3]
            bad == i >= D1 \/ j >= D2 \/ k >= D3
        IN  /\ last'.err <=> bad
            /\ at(D1, 0, 0).err /\ at(0, D2, 0).err /\ at(0, 0, D3).err
            /\ bad => elems' = elems /\ rhs' = rhs
            /\ ~ bad =>
                 /\ at(i, j, k).ref = op_call(i, j, k)
                 /\ last'.op = "at_read" =>
                      /\ last'.val = Load(elems[c], op_call(i, j, k))
                      /\ elems' = elems
                 /\ last'.op = "at_write" =>
                      elems' = [elems EXCEPT ![c] = Put(@, op_call(i, j, k), last'.val)]
      ]_vars

\* at() has thrown for subscripts of which only the last is out of range.
C1_Witness ==
    /\ last.op = "at_write" /\ last.err
    /\ dims = << 2, 2, 2 >>
    /\ last.arg = << 1, 1, 2 >>
    /\ elems["a"] # elems["b"]

\* C2: the element at (i,j,k) is the element at position i*D2*D3 + j*D3 + k
\* of the iteration from begin() to end(); once the n-th element in
\* subscript order holds n for every n, the iteration yields 1, 2, ...,
\* size(), which for <2,2,2> is 1,2,3,4,5,6,7,8.
C2_RowMajorIteration ==
    /\ \A t \in Coords :
         Load(elems["a"], op_call(t[1], t[2], t[3]))
            = Flat(elems["a"])[FlatPos(t[1], t[2], t[3]) + 1]
    /\ (\A t \in Coords : Load(elems["a"], t) # 0) =>
         /\ Flat(elems["a"]) = [n \in 1 .. D1 * D2 * D3 |-> n]
         /\ dims = << 2, 2, 2 >> => Flat(elems["a"]) = << 1, 2, 3, 4, 5, 6, 7, 8 >>

C2_Witness ==
    /\ dims = << 2, 2, 2 >>
    /\ last.op = "write"
    /\ \A n \in 1 .. 8 : Load(elems["a"], Nth(n)) = n

\* C3: after c.swap(d) every flattened position of c holds what d held
\* there before and the reverse, and a second c.swap(d) restores both.
C3_SwapExchanges ==
    [][ last'.op = "swap" =>
        LET c == last'.obj
            d == last'.res[1]
            again == swap(elems'[c], elems'[d])
        IN  /\ \A p \in Positions :
                 /\ Deref(elems'[c], p) = Deref(elems[d], p)
                 /\ Deref(elems'[d], p) = Deref(elems[c], p)
            /\ again[1] = elems[c]
            /\ again[2] = elems[d]
      ]_vars

C3_Witness ==
    /\ last.op = "swap"
    /\ dims = << 2, 2, 2 >>
    /\ \E p \in Positions, q \in Positions :
         /\ Deref(elems["a"], p) < Deref(elems["b"], p)
         /\ Deref(elems["a"], q) > Deref(elems["b"], q)

\* x is lexicographically less than y: at the first flattened position
\* where they differ, x holds the lesser element.
LexLess(x, y) ==
    \E p \in Positions :
        /\ Deref(x, p) < Deref(y, p)
        /\ \A q \in 0 .. p - 1 : Deref(x, q) = Deref(y, q)

\* C4: x < y iff x holds the lesser element at the first flattened position
\* where x and y differ; x > y is y < x, x <= y is not y < x, x >= y is
\* not x < y.
C4_LexicographicOrder ==
    /\ \A c \in Cont, d \in Cont :
         LET x == elems[c]
             y == elems[d]
         IN  /\ op_lt(x, y) <=> LexLess(x, y)
             /\ op_gt(x, y) <=> LexLess(y, x)
             /\ op_le(x, y) <=> ~ LexLess(y, x)
             /\ op_ge(x, y) <=> ~ LexLess(x, y)
    /\ last.op = "compare" =>
         LET x == elems[last.obj]
             y == elems[last.res[1]]
         IN  /\ last.res[4] <=> LexLess(x, y)
             /\ last.res[5] <=> LexLess(y, x)
             /\ last.res[6] <=> ~ LexLess(y, x)
             /\ last.res[7] <=> ~ LexLess(x, y)

\* a < b was found true although a holds the greater element at a later
\* position.
C4_Witness ==
    /\ last.op = "compare" /\ last.obj = "a" /\ last.res[1] = "b"
    /\ last.res[4]
    /\ \E q \in Positions : Deref(elems["a"], q) > Deref(elems["b"], q)

\* C5: x == y iff x and y hold equal elements at every flattened position;
\* x != y is its negation; == is reflexive, symmetric and transitive.
C5_Equality ==
    /\ \A c \in Cont, d \in Cont :
         LET x == elems[c]
             y == elems[d]
         IN  /\ op_eq(x, y) <=> \A p \in Positions : Deref(x, p) = Deref(y, p)
             /\ op_ne(x, y) <=> ~ op_eq(x, y)
             /\ op_eq(x, x)
             /\ op_eq(x, y) => op_eq(y, x)
             /\ \A z \in { elems[e] : e \in Cont } \cup { op_assign(x, rhs) } :
                  op_eq(x, y) /\ op_eq(y, z) => op_eq(x, z)
    /\ last.op = "compare" =>
         LET x == elems[last.obj]
             y == elems[last.res[1]]
         IN  /\ last.res[2] <=> \A p \in Positions : Deref(x, p) = Deref(y, p)
             /\ last.res[3] <=> ~ last.res[2]

\* a == b was found false for containers that differ in the last element
\* only.
C5_Witness ==
    /\ last.op = "compare" /\ last.obj = "a" /\ last.res[1] = "b"
    /\ ~ last.res[2] /\ last.res[3]
    /\ dims = << 2, 2, 2 >>
    /\ \A p \in Positions :
         (Deref(elems["a"], p) = Deref(elems["b"], p)) <=> p # D1 * D2 * D3 - 1

\* C6: after c = rhs every flattened position of c holds the conversion to
\* T of what rhs holds there, rhs and the other container are as before,
\* and the call returns c.
C6_ConvertingAssignment ==
    [][ last'.op = "convert" =>
        LET c == last'.obj IN
        /\ \A p \in Positions : Deref(elems'[c], p) = Convert(Deref(rhs, p))
        /\ \A d \in Cont \ { c } : elems'[d] = elems[d]
        /\ rhs' = rhs
        /\ last'.res = << c >>
      ]_vars

\* The assignment gave c elements that differ from one another and from
\* what rhs holds.
C6_Witness ==
    /\ last.op = "convert"
    /\ dims = << 2, 2, 2 >>
    /\ \E p \in Positions, q \in Positions :
         /\ Deref(elems[last.obj], p) # Deref(elems[last.obj], q)
         /\ Deref(elems[last.obj], p) # Deref(rhs, p)

\* C7: after fill(v) every one of the D1*D2*D3 elements is v, so the
\* iteration yields v throughout and front() == back() == v; assign(v)
\* leaves the container as fill(v) does.
C7_FillAssign ==
    [][ last'.op \in { "fill", "assign" } =>
        LET c == last'.obj
            v == last'.val
        IN  /\ \A t \in Coords : Load(elems'[c], t) = v
            /\ Flat(elems'[c]) = [n \in 1 .. D1 * D2 * D3 |-> v]
            /\ front(elems'[c]) = v
            /\ back(elems'[c]) = v
            /\ elems'[c] = fill(elems[c], v)
      ]_vars

C7_Witness ==
    /\ last.op = "assign" /\ last.val = 1
    /\ dims = << 2, 2, 2 >>
    /\ Flat(elems["a"]) = << 1, 1, 1, 1, 1, 1, 1, 1 >>

\* The subscript triples of the T objects container e holds.
Held(e) ==
    UNION { UNION { { << i, j, k >> : k \in DOMAIN e[i][j] } : j \in DOMAIN e[i] } :
            i \in DOMAIN e }

\* C8: whatever operations have run, size() == max_size() == D1*D2*D3 is
\* the number of elements every container holds, size_1d(), size_2d() and
\* size_3d() are D1, D2 and D3, the extents of elems, and empty() is false,
\* which is what size() == 0 is.
C8_FixedCapacity ==
    /\ size = D1 * D2 * D3
    /\ max_size = size
    /\ size_1d = D1 /\ size_2d = D2 /\ size_3d = D3
    /\ empty = FALSE
    /\ empty <=> (size = 0)
    /\ \A c \in Cont :
         /\ Cardinality(Held(elems[c])) = size
         /\ Held(elems[c]) = (0 .. size_1d - 1) \X (0 .. size_2d - 1) \X (0 .. size_3d - 1)
         /\ Len(Flat(elems[c])) = max_size
    /\ Cardinality(Held(rhs)) = size
    /\ last.op = "capacity" =>
         last.res = << D1, D2, D3, D1 * D2 * D3, D1 * D2 * D3, FALSE >>

\* The capacity was asked of a container after one of each kind of change.
C8_Witness ==
    /\ last.op = "capacity"
    /\ last.res[4] = 2
    /\ elems["a"] # elems["b"]

\* C9: the iteration from begin() to end() yields size() elements, the
\* first of them front(), the element at (0,0,0), and the last of them
\* back(), the element at (D1-1,D2-1,D3-1); the iteration from rbegin() to
\* rend() yields the same elements in the reverse order.
C9_IterationEnds ==
    LET e == elems["a"]
        s == Flat(e)
        r == RWalk(e, rbegin, rend)
    IN  /\ Len(s) = size
        /\ s[1] = front(e)
        /\ front(e) = Load(e, << 0, 0, 0 >>)
        /\ s[Len(s)] = back(e)
        /\ back(e) = Load(e, << D1 - 1, D2 - 1, D3 - 1 >>)
        /\ Len(r) = size
        /\ \A n \in 1 .. Len(s) : r[n] = s[Len(s) + 1 - n]
        /\ r[1] = back(e)
        /\ r[Len(r)] = front(e)

\* A container whose reverse iteration differs from its forward iteration.
C9_Witness ==
    /\ dims = << 2, 2, 2 >>
    /\ last.op = "write"
    /\ front(elems["a"]) = 0 /\ back(elems["a"]) = 1
    /\ Flat(elems["a"]) = << 0, 0, 1, 0, 1, 1, 0, 1 >>

====
